---- MODULE Spec2Model ----
(***************************************************************************)
(* Verification model of the KCS global-mean-temperature-change            *)
(* diagnostic (esmvaltool/diag_scripts/kcs/tas_annual_change.py):          *)
(* reference values, normalization, the run table they work on and the     *)
(* percentile table; of the plotting script diag_scripts/mlr/plot.py; and   *)
(* of the jet-latitude derivation preprocessor/_derive/uajet.py.  Each has  *)
(* its own specification: Spec and SpecPerc, SpecPlot, SpecJet.             *)
(*                                                                         *)
(* Numbers are exact rationals [n, d] with d > 0 in lowest terms.  The     *)
(* pandas/numpy "missing" value (None in a float column, NaN) is the       *)
(* rational with d = 0 and n = 0; a division of a non-zero value by zero   *)
(* gives d = 0 and n = +1 or -1 (numpy's inf).                             *)
(***************************************************************************)
EXTENDS Integers, Sequences, FiniteSets, TLC

VARIABLES pc,        \* position in main(): "matched", "referenced", "normalized", "raised"
          dataset,   \* the run table (pandas DataFrame): a sequence of rows
          cubes,     \* the heap of iris cubes: cube id -> [points, units]
          cfg,       \* the keyword arguments of this run: normby, yearly, relative
          calls,     \* locals of the calc_refvalue calls of the last reference pass
          error,     \* the exception that ended the run, "" when none
          percentiles, \* the percentile table: a sequence of rows, one per year
          output,    \* the csv file main() writes: "" until written, then the table
          \* diag_scripts/mlr/plot.py
          input_data, \* the datasets mlr.get_input_data returns, a sequence
          cube_dict, \* the dictionary get_cube_dict builds, as a sequence of items
          todo,      \* the items the running plot loop has still to go through
          written,   \* the files written so far
          \* preprocessor/_derive/uajet.py
          ua_cube,   \* the zonal-mean wind: data[time][latitude] and the latitudes
          time_index, \* the number of time slices the loop has gone through
          x_vals,    \* ua_data[slc] of the last slice
          y_vals,    \* the latitude points [slc] of the last slice
          uajet_vals \* the jet latitudes computed so far

plot_vars == <<input_data, cube_dict, todo, written>>
jet_vars  == <<ua_cube, time_index, x_vals, y_vals, uajet_vals>>
kcs_vars  == <<dataset, cubes, cfg, calls, percentiles, output>>

vars == <<pc, error, kcs_vars, plot_vars, jet_vars>>

\* The plotting script and the jet derivation before they are run.
PlotIdle ==
    /\ input_data = <<>>
    /\ cube_dict = <<>>
    /\ todo = <<>>
    /\ written = {}

JetIdle ==
    /\ ua_cube = [data |-> <<>>, latitude |-> <<>>]
    /\ time_index = 0
    /\ x_vals = <<>>
    /\ y_vals = <<>>
    /\ uajet_vals = <<>>

\* The temperature-change script before it is run.
KcsIdle ==
    /\ dataset = <<>>
    /\ cubes = <<>>
    /\ cfg = [normby |-> "", yearly |-> FALSE, relative |-> FALSE,
              historical_key |-> ""]
    /\ calls = <<>>
    /\ percentiles = <<>>
    /\ output = ""

----------------------------------------------------------------------------
(* Exact rational arithmetic (numpy float arithmetic without rounding).     *)

Abs(x) == IF x < 0 THEN -x ELSE x

RECURSIVE Gcd(_, _)
Gcd(a, b) == IF b = 0 THEN a ELSE Gcd(b, a % b)

\* The value n/d, d # 0, in lowest terms with a positive denominator.
Norm(n, d) ==
    LET g == Gcd(Abs(n), Abs(d))
        s == IF d < 0 THEN -1 ELSE 1
    IN  [n |-> s * (n \div g), d |-> s * (d \div g)]

R(i) == [n |-> i, d |-> 1]
NaN  == [n |-> 0, d |-> 0]
Zero == R(0)

IsNum(x) == x.d > 0
IsNA(x)  == x.d = 0 /\ x.n = 0

\* The operations reduce by common factors before they multiply, to keep the
\* intermediate integers small.
Add(x, y) == IF IsNum(x) /\ IsNum(y)
             THEN LET g == Gcd(x.d, y.d)
                  IN  Norm(x.n * (y.d \div g) + y.n * (x.d \div g),
                           (x.d \div g) * y.d)
             ELSE NaN
Neg(x)    == [x EXCEPT !.n = -x.n]
Sub(x, y) == Add(x, Neg(y))
Mul(x, y) == IF IsNum(x) /\ IsNum(y)
             THEN LET g1 == Gcd(Abs(x.n), y.d)
                      g2 == Gcd(Abs(y.n), x.d)
                  IN  Norm((x.n \div g1) * (y.n \div g2),
                           (x.d \div g2) * (y.d \div g1))
             ELSE NaN
Div(x, y) == IF ~(IsNum(x) /\ IsNum(y)) THEN NaN
             ELSE IF y.n > 0 THEN Mul(x, [n |-> y.d, d |-> y.n])
             ELSE IF y.n < 0 THEN Mul(x, [n |-> -y.d, d |-> -y.n])
             ELSE IF x.n = 0 THEN NaN
             ELSE [n |-> IF x.n > 0 THEN 1 ELSE -1, d |-> 0]

RECURSIVE SumRange(_, _, _)
\* s[lo] + ... + s[hi], by halves.
SumRange(s, lo, hi) ==
    IF lo > hi THEN Zero
    ELSE IF lo = hi THEN s[lo]
    ELSE LET mid == (lo + hi) \div 2
         IN  Add(SumRange(s, lo, mid), SumRange(s, mid + 1, hi))

\* Python sum() of a sequence of values.
SumSeq(s) == SumRange(s, 1, Len(s))

\* numpy / iris MEAN of a non-empty sequence of values.
Mean(s) == Div(SumSeq(s), R(Len(s)))

----------------------------------------------------------------------------
(* Cubes: an iris cube reduced to its samples, each a value with the year    *)
(* of its time point, and its unit.                                          *)

\* PERIOD and MINDATA, module level.
PERIOD  == <<1961, 2099>>
MINDATA == [historical |-> 20, future |-> 4]

\* reference_period as main() passes it.
ReferencePeriod == <<1980, 2009>>

\* kcsutils.make_year_constraint_all_calendars(start, end): the closed year
\* interval start..end.
InYearRange(year, period) == period[1] <= year /\ year <= period[2]

\* constraint.extract(cube): the samples of the cube whose year satisfies the
\* constraint, in order; iris returns None when no sample does, which is the
\* cube with no samples here.
extract(cube, period) ==
    [cube EXCEPT !.points =
        SelectSeq(cube.points, LAMBDA p : InYearRange(p.year, period))]

IsNone(cube) == cube.points = <<>>

Values(cube) == [i \in 1..Len(cube.points) |-> cube.points[i].val]
Years(cube)  == [i \in 1..Len(cube.points) |-> cube.points[i].year]

\* excube.collapsed('time', iris.analysis.MEAN).data
collapsed(cube) == Mean(Values(cube))

\* average_year_cube(cube, season=None): cube.aggregated_by('year', MEAN),
\* one sample per year with the mean of the year's samples.  The time
\* coordinate of a cube is monotonic, so the samples of a year are adjacent:
\* a group starts where the year changes.
average_year_cube(cube) ==
    LET pts     == cube.points
        n       == Len(pts)
        vals    == Values(cube)
        starts  == SelectSeq([i \in 1..n |-> i],
                             LAMBDA i : i = 1 \/ pts[i - 1].year # pts[i].year)
        last(k) == IF k < Len(starts) THEN starts[k + 1] - 1 ELSE n
    IN  [cube EXCEPT !.points =
            [k \in 1..Len(starts) |->
                [year |-> pts[starts[k]].year,
                 val  |-> Div(SumRange(vals, starts[k], last(k)),
                              R(last(k) - starts[k] + 1))]]]

\* ModelReferencePointCalculation.__init__: the minimum sample counts.
Mindata(yearly, season) ==
    IF yearly THEN MINDATA
    ELSE IF season # "" THEN [historical |-> 3 * MINDATA.historical,
                              future     |-> 3 * MINDATA.future]
    ELSE [historical |-> 12 * MINDATA.historical,
          future     |-> 12 * MINDATA.future]

\* Faulty variant of TooFew: the comparison is off by one.
TooFewOrEqual(ndata, mindata) == ndata <= mindata

\* The test of calc_mean that rejects a restricted cube: ndata < mindata.
TooFew(ndata, mindata) == ndata < mindata

\* The body of calc_mean's loop for one cube: no pair when the cube does not
\* intersect the period or has too few samples in it, else (mean, ndata).
calc_mean_cube(cube, mindata, period) ==
    LET excube == extract(cube, period)
        ndata  == Len(excube.points)
    IN  IF IsNone(excube) THEN <<>>
        ELSE IF TooFew(ndata, mindata) THEN <<>>
        ELSE <<[mean |-> collapsed(excube), ndata |-> ndata]>>

RECURSIVE Concat(_)
Concat(ss) == IF ss = <<>> THEN <<>> ELSE Head(ss) \o Concat(Tail(ss))

\* ModelReferencePointCalculation.calc_mean: the (mean, ndata) pairs of the
\* cubes that intersect the reference period with at least mindata samples.
calc_mean(cubelist, mindata, period) ==
    Concat([i \in 1..Len(cubelist) |->
               calc_mean_cube(cubelist[i], mindata, period)])

\* Faulty variant of BranchCount: the counts are summed, not averaged.
BranchCountSummed(values) ==
    SumSeq([i \in 1..Len(values) |-> R(values[i].ndata)])

\* ndata[key] = sum(value[1] for value in values) / n
BranchCount(values) ==
    Div(SumSeq([i \in 1..Len(values) |-> R(values[i].ndata)]), R(Len(values)))

\* mean[key] = sum(value[0].data for value in values) / n
BranchMean(values) ==
    Div(SumSeq([i \in 1..Len(values) |-> values[i].mean]), R(Len(values)))

\* ModelReferencePointCalculation.calc_refvalue from avs on; None is NaN.
RefValue(avs) ==
    IF avs.historical = <<>> \/ avs.future = <<>> THEN NaN
    ELSE Div(Add(Mul(BranchMean(avs.historical), BranchCount(avs.historical)),
                 Mul(BranchMean(avs.future), BranchCount(avs.future))),
             Add(BranchCount(avs.historical), BranchCount(avs.future)))

\* Faulty variant of Avs: the future branch is averaged over the whole output
\* period instead of the reference period.
AvsFutureUnrestricted(cubelist, histcubes, mindata, period) ==
    [historical |-> calc_mean(histcubes, mindata.historical, period),
     future     |-> calc_mean(cubelist, mindata.future, PERIOD)]

\* The avs dict calc_refvalue builds from its arguments.
Avs(cubelist, histcubes, mindata, period) ==
    [historical |-> calc_mean(histcubes, mindata.historical, period),
     future     |-> calc_mean(cubelist, mindata.future, period)]

calc_refvalue(cubelist, histcubes, mindata, period) ==
    RefValue(Avs(cubelist, histcubes, mindata, period))

----------------------------------------------------------------------------
(* The input files of a run: a small catalogue of global-mean series.       *)

\* A series with one sample per year from first to last, of value
\* base + (year % cycle).
YearlyCube(first, last, base, cycle) ==
    [points |-> [i \in 1..(last - first + 1) |->
                    [year |-> first + i - 1,
                     val  |-> R(base + ((first + i - 1) % cycle))]],
     units  |-> "K"]

\* A series with two samples per year from first to last, the i-th sample of
\* value base + i.
HalfYearlyCube(first, last, base) ==
    [points |-> [i \in 1..(2 * (last - first + 1)) |->
                    [year |-> first + ((i - 1) \div 2), val |-> R(base + i)]],
     units  |-> "K"]

HistFiles   == {"h1961_2009", "h1990_2009", "h1991_2009"}
FutureFiles == {"f2006_2099", "f2007_2012", "f2010_2014", "f2005_2009x2"}

\* iris.load_cube(path): the contents of each file.
File(name) ==
    CASE name = "h1961_2009"   -> YearlyCube(1961, 2009, 10, 1)
      [] name = "h1990_2009"   -> YearlyCube(1990, 2009, 8, 5)
      [] name = "h1991_2009"   -> YearlyCube(1991, 2009, 9, 1)
      [] name = "f2006_2099"   -> YearlyCube(2006, 2099, 12, 1)
      [] name = "f2007_2012"   -> YearlyCube(2007, 2012, 13, 1)
      [] name = "f2010_2014"   -> YearlyCube(2010, 2014, 14, 1)
      [] name = "f2005_2009x2" -> HalfYearlyCube(2005, 2009, 10)

\* The files an experiment's runs are drawn from.
FilesOf(experiment) ==
    CASE experiment = "historical" -> HistFiles
      [] experiment = "rcp45"      -> {"f2006_2099", "f2007_2012", "f2010_2014"}
      [] experiment = "rcp85"      -> {"f2005_2009x2"}

historical_key    == "historical"
ModelNames        == <<"model-A", "model-B">>
FutureExperiments == {"rcp45", "rcp85"}

\* The largest number of runs (rows of the run table) of one pipeline run.
MaxRows == 3

----------------------------------------------------------------------------
(* The run table.  A row is a record; its 'index' is the pandas index label *)
(* (0-based position in the table get_attributes builds); 'cube' is the id   *)
(* of the row's cube in the heap.                                            *)

Row(index, model, experiment, file, match) ==
    [index |-> index, model |-> model, experiment |-> experiment,
     file |-> file, cube |-> index + 1, index_match_run |-> match,
     reference_value |-> NaN, matched_exp |-> ""]

ModelPos(m) == CHOOSE i \in 1..Len(ModelNames) : ModelNames[i] = m

\* The rows that may follow table t: models in the order of ModelNames, the
\* historical runs of a model before its future runs; a future run is matched
\* to a historical run of its own model or to none (-1), a historical run to
\* none.
NextRows(t) ==
    LET n     == Len(t)
        mods  == IF n = 0 THEN {ModelNames[1]}
                 ELSE {t[n].model} \cup
                      {ModelNames[i] : i \in {ModelPos(t[n].model) + 1}
                                             \cap (1..Len(ModelNames))}
        hists(m) == {t[i].index : i \in {j \in 1..n : t[j].model = m
                                           /\ t[j].experiment = historical_key}}
        futureSeen(m) == \E j \in 1..n : t[j].model = m
                                         /\ t[j].experiment # historical_key
    IN  {Row(n, m, historical_key, f, -1) :
             m \in {x \in mods : ~futureSeen(x)}, f \in HistFiles}
        \cup
        UNION {UNION {{Row(n, m, e, f, h) : f \in FilesOf(e),
                                            h \in {-1} \cup hists(m)} :
                         e \in FutureExperiments} : m \in mods}

RECURSIVE TablesOfLen(_)
TablesOfLen(n) ==
    IF n = 0 THEN {<<>>}
    ELSE UNION {{Append(t, r) : r \in NextRows(t)} : t \in TablesOfLen(n - 1)}

\* The tables kcsutils.match can hand to calculate_reference_values.
Tables == UNION {TablesOfLen(n) : n \in 1..MaxRows}

\* dataset.loc[label] on a table with unique labels.
RowAt(ds, label) == ds[CHOOSE i \in 1..Len(ds) : ds[i].index = label]

Init ==
    /\ pc = "matched"
    /\ dataset \in Tables
    /\ cubes = [id \in 1..Len(dataset) |-> File(dataset[id].file)]
    /\ cfg = [normby |-> "", yearly |-> FALSE, relative |-> FALSE,
              historical_key |-> ""]
    /\ calls = <<>>
    /\ error = ""
    /\ percentiles = <<>>
    /\ output = ""
    /\ PlotIdle
    /\ JetIdle

----------------------------------------------------------------------------
(* calculate_reference_values                                               *)

RECURSIVE Unique(_)
\* Series.unique(): the distinct values in order of first appearance.
Unique(s) ==
    IF s = <<>> THEN <<>>
    ELSE <<Head(s)>> \o Unique(SelectSeq(Tail(s), LAMBDA x : x # Head(s)))

\* future_data = dataset[index > -1], with match_historical_run the cube of
\* the row that index_match_run names.
FutureData(ds) ==
    LET fut == SelectSeq(ds, LAMBDA r : r.index_match_run > -1)
    IN  [i \in 1..Len(fut) |->
            [index |-> fut[i].index, model |-> fut[i].model,
             experiment |-> fut[i].experiment, cube |-> fut[i].cube,
             match_historical_run |-> RowAt(ds, fut[i].index_match_run).cube]]

\* The groups __call__ forms of the rows of one model, in order of first
\* appearance: the model itself, its experiments, or its rows (by index label).
GroupKeySeq(fdata, model, normby) ==
    LET rows == SelectSeq(fdata, LAMBDA r : r.model = model)
    IN  IF normby = "model" THEN <<model>>
        ELSE IF normby = "experiment"
             THEN Unique([i \in 1..Len(rows) |-> rows[i].experiment])
        ELSE [i \in 1..Len(rows) |-> rows[i].index]

GroupKeys(fdata, model, normby) ==
    LET ks == GroupKeySeq(fdata, model, normby)
    IN  {ks[i] : i \in 1..Len(ks)}

GroupRows(fdata, model, normby, key) ==
    SelectSeq(fdata, LAMBDA r :
        /\ r.model = model
        /\ \/ normby = "model"
           \/ normby = "experiment" /\ r.experiment = key
           \/ normby \notin {"model", "experiment"} /\ r.index = key)

\* The arguments, the avs and the result of the calc_refvalue call for one
\* group.
GroupCall(fdata, heap, model, normby, key, mindata, period) ==
    LET rows == GroupRows(fdata, model, normby, key)
        avs  == Avs([i \in 1..Len(rows) |-> heap[rows[i].cube]],
                    [i \in 1..Len(rows) |-> heap[rows[i].match_historical_run]],
                    mindata, period)
    IN  [model |-> model, key |-> key,
         cubes |-> [i \in 1..Len(rows) |-> rows[i].cube],
         histcubes |-> [i \in 1..Len(rows) |-> rows[i].match_historical_run],
         historical |-> avs.historical,
         future |-> avs.future,
         value |-> RefValue(avs)]

\* The calc_refvalue calls of one pass over the models, in call order.
CallsOf(fdata, heap, models, normby, mindata, period) ==
    Concat([i \in 1..Len(models) |->
              LET ks == GroupKeySeq(fdata, models[i], normby)
              IN  [j \in 1..Len(ks) |->
                     GroupCall(fdata, heap, models[i], normby, ks[j],
                               mindata, period)]])

\* ModelReferencePointCalculation.__call__(model), from the calc_refvalue
\* calls it made: a value (normby = 'model') or a dict from group key to value.
Calculation(callseq, model, normby) ==
    LET mine == SelectSeq(callseq, LAMBDA c : c.model = model)
    IN  IF normby = "model"
        THEN [isdict |-> FALSE, value |-> mine[1].value, dict |-> [k \in {} |-> NaN]]
        ELSE [isdict |-> TRUE, value |-> NaN,
              dict   |-> [k \in {mine[i].key : i \in 1..Len(mine)} |->
                            (CHOOSE c \in {mine[i] : i \in 1..Len(mine)} :
                                 c.key = k).value]]

\* Python truth value of what __call__ returns: None, 0.0 and {} are false.
Truthy(v) ==
    IF v.isdict THEN DOMAIN v.dict # {}
    ELSE ~IsNA(v.value) /\ v.value # Zero

\* reference_values = filter(None, map(calculation, models))
FilterNone(values) == SelectSeq(values, Truthy)

Min(a, b) == IF a < b THEN a ELSE b

\* The reference_value column that calculate_reference_values assigns, from
\* models and the filtered reference_values; rows the assigned Series has no
\* entry for get NaN.
ReferenceColumn(ds, models, refs, normby) ==
    LET nzip == Min(Len(models), Len(refs))
        zipped(m) == {i \in 1..nzip : models[i] = m}
        ofRow(r) ==
            IF normby = "model"
            THEN IF zipped(r.model) = {} THEN NaN
                 ELSE refs[CHOOSE i \in zipped(r.model) : TRUE].value
            ELSE IF normby = "experiment"
            THEN IF zipped(r.model) = {} THEN NaN
                 ELSE LET d == refs[CHOOSE i \in zipped(r.model) : TRUE].dict
                      IN  IF r.experiment \in DOMAIN d THEN d[r.experiment]
                          ELSE NaN
            ELSE LET has == {i \in 1..Len(refs) : r.index \in DOMAIN refs[i].dict}
                 IN  IF has = {} THEN NaN
                     ELSE refs[CHOOSE i \in has : TRUE].dict[r.index]
    IN  [i \in 1..Len(ds) |-> [ds[i] EXCEPT !.reference_value = ofRow(ds[i])]]

\* The keyword arguments calculate_reference_values is called with: every
\* granularity on yearly data with the historical key given, the arguments
\* of main() (yearly=False, normby='run'), or the function's defaults
\* (historical_key=None).
Configs ==
    {[normby |-> n, yearly |-> TRUE, relative |-> FALSE,
      historical_key |-> historical_key] : n \in {"model", "experiment", "run"}}
    \cup {[normby |-> "run", yearly |-> FALSE, relative |-> FALSE,
           historical_key |-> k] : k \in {historical_key, ""}}

ModelsOf(ds) == Unique([i \in 1..Len(ds) |-> ds[i].model])

calculate_reference_values(c) ==
    /\ pc = "matched"
    /\ UNCHANGED <<percentiles, output, plot_vars, jet_vars>>
    /\ cfg' = c
    /\ cubes' = IF c.yearly
                THEN [id \in DOMAIN cubes |-> average_year_cube(cubes[id])]
                ELSE cubes
    /\ IF c.historical_key = ""
       THEN \* default_config is not defined
            /\ pc' = "raised"
            /\ error' = "NameError"
            /\ UNCHANGED <<dataset, calls>>
       ELSE /\ calls' = CallsOf(FutureData(dataset), cubes', ModelsOf(dataset),
                                c.normby, Mindata(c.yearly, ""), ReferencePeriod)
            /\ LET models == ModelsOf(dataset)
                   refs   == FilterNone([i \in 1..Len(models) |->
                                 Calculation(calls', models[i], c.normby)])
               IN  IF c.normby # "model" /\ refs = <<>>
                   THEN \* pd.concat([]): No objects to concatenate
                        /\ pc' = "raised"
                        /\ error' = "ValueError"
                        /\ UNCHANGED dataset
                   ELSE /\ pc' = "referenced"
                        /\ error' = ""
                        /\ dataset' = ReferenceColumn(dataset, models, refs,
                                                      c.normby)

CalcRef == \E c \in Configs : calculate_reference_values(c)

----------------------------------------------------------------------------
(* normalize                                                                *)

\* Faulty variant of normalize_cube: relative mode without the scaling to percent.
normalize_cube_unscaled(cube, ref_value, relative) ==
    [points |-> [i \in 1..Len(cube.points) |->
                   LET d == Sub(cube.points[i].val, ref_value)
                   IN  [cube.points[i] EXCEPT !.val =
                           IF relative THEN Div(d, ref_value) ELSE d]],
     units  |-> IF relative THEN "%" ELSE cube.units]

\* normalize_cube((cube, ref_value), relative): the cube after the in-place
\* update of its data and unit.
normalize_cube(cube, ref_value, relative) ==
    [points |-> [i \in 1..Len(cube.points) |->
                   LET d == Sub(cube.points[i].val, ref_value)
                   IN  [cube.points[i] EXCEPT !.val =
                           IF relative THEN Mul(Div(d, ref_value), R(100))
                           ELSE d]],
     units  |-> IF relative THEN "%" ELSE cube.units]

\* Faulty variant of cube_copy: no copy is made, the row refers to the same cube.
cube_alias(id, fresh) == id

\* cube.copy(): the id of the new cube, given the next free id of the heap.
cube_copy(id, fresh) == fresh

\* dataset.dropna(axis=0, subset=['reference_value'])
dropna(ds) == SelectSeq(ds, LAMBDA r : ~IsNA(r.reference_value))

\* Faulty variant of HistData: the reference values of the matching rows are not
\* copied to the duplicates.
HistDataWithoutReference(ds) ==
    LET sel == SelectSeq(ds, LAMBDA r : r.index_match_run > -1)
    IN  [k \in 1..Len(sel) |->
            [RowAt(ds, sel[k].index_match_run) EXCEPT
                !.cube            = Len(ds) + k,
                !.index_match_run = sel[k].index,
                !.matched_exp     = sel[k].experiment]]

\* hist_data: for each row with a match, in order, the row it is matched to,
\* with a copy of the cube, the reference value and experiment of the
\* matching row, and the matching row's label as index_match_run.
HistData(ds) ==
    LET sel == SelectSeq(ds, LAMBDA r : r.index_match_run > -1)
    IN  [k \in 1..Len(sel) |->
            [RowAt(ds, sel[k].index_match_run) EXCEPT
                !.cube            = cube_copy(@, Len(ds) + k),
                !.reference_value = sel[k].reference_value,
                !.index_match_run = sel[k].index,
                !.matched_exp     = sel[k].experiment]]

\* The heap after hist_data is built: a new cube per row of hist_data, with
\* the contents of the cube it copies.
HeapWithCopies(heap, ds) ==
    LET sel == SelectSeq(ds, LAMBDA r : r.index_match_run > -1)
    IN  [id \in 1..(Len(ds) + Len(sel)) |->
            IF id <= Len(ds) THEN heap[id]
            ELSE heap[RowAt(ds, sel[id - Len(ds)].index_match_run).cube]]

RECURSIVE NormalizeAll(_, _, _, _)
\* list(map(func, zip(dataset['cube'], dataset['reference_value']))): the
\* heap after the cubes of rows 1..k were normalized in place, in row order.
NormalizeAll(heap, ds, k, relative) ==
    IF k = 0 THEN heap
    ELSE LET h == NormalizeAll(heap, ds, k - 1, relative)
         IN  [h EXCEPT ![ds[k].cube] =
                 normalize_cube(h[ds[k].cube], ds[k].reference_value, relative)]

\* The table normalize works on once the historical rows are duplicated and
\* the rows without reference value are dropped (normby other than 'model').
Prepared(ds, normby) ==
    IF normby # "model" THEN dropna(ds \o HistData(ds)) ELSE ds

normalize(relative, normby) ==
    /\ pc = "referenced"
    /\ cfg' = [cfg EXCEPT !.relative = relative]
    /\ dataset' = Prepared([i \in 1..Len(dataset) |->
                               [dataset[i] EXCEPT !.matched_exp = ""]], normby)
    /\ cubes' = NormalizeAll(IF normby # "model"
                             THEN HeapWithCopies(cubes, dataset) ELSE cubes,
                             dataset', Len(dataset'), relative)
    /\ pc' = "normalized"
    /\ UNCHANGED <<calls, error, percentiles, output, plot_vars, jet_vars>>

\* main() passes the same normby to calculate_reference_values and normalize.
Normalize == \E relative \in BOOLEAN : normalize(relative, cfg.normby)

Next == CalcRef \/ Normalize
Spec == Init /\ [][Next]_vars
----------------------------------------------------------------------------
(* Window statistics of a cube stated over index sets, for the properties.  *)

WinIdx(cube) ==
    {i \in 1..Len(cube.points) :
        /\ cube.points[i].year >= ReferencePeriod[1]
        /\ cube.points[i].year <= ReferencePeriod[2]}

WinCount(cube) == Cardinality(WinIdx(cube))

RECURSIVE SumOver(_, _)
\* The sum of f[i] over the indices i in S.
SumOver(f, S) ==
    IF S = {} THEN Zero
    ELSE LET i == CHOOSE x \in S : TRUE
         IN  Add(f[i], SumOver(f, S \ {i}))

WinMean(cube) ==
    Div(SumOver([i \in 1..Len(cube.points) |-> cube.points[i].val], WinIdx(cube)),
        R(WinCount(cube)))

\* The positions of the arrays of a branch that have at least minimum samples
\* in the reference window, and at least one.
Surviving(cubelist, minimum) ==
    {i \in 1..Len(cubelist) :
        WinCount(cubelist[i]) >= 1 /\ WinCount(cubelist[i]) >= minimum}

\* The cubes a calc_refvalue call was made with, from the heap.
HistCubesOf(call)   == [i \in 1..Len(call.histcubes) |-> cubes[call.histcubes[i]]]
FutureCubesOf(call) == [i \in 1..Len(call.cubes) |-> cubes[call.cubes[i]]]

MinOf == Mindata(cfg.yearly, "")

----------------------------------------------------------------------------
(* C1  Reference combination law.                                            *)
(* For every group in which both branches have at least one surviving       *)
(* array, the value calc_refvalue returned, V, is a number and satisfies     *)
(* V * (Hc + Fc) = Hm * Hc + Fm * Fc, with Hm, Fm the unweighted means of    *)
(* the surviving arrays' window means and Hc, Fc the means of their sample   *)
(* counts in the window.                                                     *)
C1_Law(call) ==
    LET H  == HistCubesOf(call)
        F  == FutureCubesOf(call)
        sH == Surviving(H, MinOf.historical)
        sF == Surviving(F, MinOf.future)
        Hm == Div(SumOver([i \in 1..Len(H) |-> WinMean(H[i])], sH), R(Cardinality(sH)))
        Fm == Div(SumOver([i \in 1..Len(F) |-> WinMean(F[i])], sF), R(Cardinality(sF)))
        Hc == Div(R(SumOver([i \in 1..Len(H) |-> R(WinCount(H[i]))], sH).n),
                  R(Cardinality(sH)))
        Fc == Div(R(SumOver([i \in 1..Len(F) |-> R(WinCount(F[i]))], sF).n),
                  R(Cardinality(sF)))
    IN  (sH # {} /\ sF # {}) =>
            /\ IsNum(call.value)
            /\ Mul(call.value, Add(Hc, Fc)) = Add(Mul(Hm, Hc), Mul(Fm, Fc))

\* C1: every recorded calc_refvalue result obeys the combination law.
C1_ReferenceCombination ==
    pc = "referenced" => \A k \in 1..Len(calls) : C1_Law(calls[k])

\* A group with two surviving future arrays of different sample counts and
\* means (and the historical array they share, counted once per future run).
C1_Witness ==
    /\ pc = "referenced"
    /\ \E k \in 1..Len(calls) :
          /\ Len(calls[k].historical) = 2
          /\ Len(calls[k].future) = 2
          /\ calls[k].future[1].ndata # calls[k].future[2].ndata
          /\ calls[k].future[1].mean # calls[k].future[2].mean
          /\ IsNum(calls[k].value)

----------------------------------------------------------------------------
(* C2  Minimum-sample exclusion.                                             *)
(* In every calc_refvalue call, the averages calc_mean returned for a branch *)
(* are, in order, the (window mean, window count) pairs of exactly those     *)
(* arrays of the branch whose window count is at least 1 and at least the    *)
(* branch's minimum: minimum - 1 samples exclude an array, minimum samples   *)
(* include it, and an array outside the window is skipped.                   *)
ExpectedAverages(cubelist, minimum) ==
    LET keep == SelectSeq([i \in 1..Len(cubelist) |-> i],
                          LAMBDA i : i \in Surviving(cubelist, minimum))
    IN  [j \in 1..Len(keep) |->
            [mean  |-> WinMean(cubelist[keep[j]]),
             ndata |-> WinCount(cubelist[keep[j]])]]

C2_MinimumSampleExclusion ==
    pc = "referenced" =>
        \A k \in 1..Len(calls) :
            /\ calls[k].historical =
                  ExpectedAverages(HistCubesOf(calls[k]), MinOf.historical)
            /\ calls[k].future =
                  ExpectedAverages(FutureCubesOf(calls[k]), MinOf.future)

\* One call in which a historical array with exactly the minimum (20) is
\* kept, a future array with minimum - 1 (3) is left out and a future array
\* outside the window is skipped.
C2_Witness ==
    /\ pc = "referenced"
    /\ \E k \in 1..Len(calls) :
          LET H == HistCubesOf(calls[k])
              F == FutureCubesOf(calls[k])
          IN  /\ \E i \in 1..Len(H) : WinCount(H[i]) = MinOf.historical
              /\ Len(calls[k].historical) = Len(H)
              /\ \E i \in 1..Len(F) : WinCount(F[i]) = MinOf.future - 1
              /\ \E i \in 1..Len(F) : WinCount(F[i]) = 0
              /\ calls[k].future = <<>>

----------------------------------------------------------------------------
(* C3  End-to-end scenario: model-A with a historical run 1961-2009 of      *)
(* constant 10 and an rcp45 run 2006-2099 of constant 12 matched to it,      *)
(* reference window 1980-2009, minima 20 and 4, per-run absolute             *)
(* normalization.                                                            *)

ScenarioConfig ==
    /\ cfg.normby = "run" /\ cfg.yearly /\ ~cfg.relative
    /\ MinOf = [historical |-> 20, future |-> 4]
    /\ ReferencePeriod = <<1980, 2009>>

\* The run table of the scenario once the reference values are attached.
ScenarioReferenced ==
    /\ pc = "referenced" /\ ScenarioConfig
    /\ Len(dataset) = 2
    /\ dataset[1].model = "model-A" /\ dataset[1].file = "h1961_2009"
    /\ dataset[1].experiment = "historical"
    /\ dataset[2].model = "model-A" /\ dataset[2].file = "f2006_2099"
    /\ dataset[2].experiment = "rcp45" /\ dataset[2].index_match_run = 0

\* The normalized run table of the scenario: the future run and the duplicate
\* of the historical run.
ScenarioNormalized ==
    /\ pc = "normalized" /\ ScenarioConfig
    /\ Len(cubes) = 3
    /\ Len(dataset) = 2
    /\ dataset[1].file = "f2006_2099" /\ dataset[1].index = 1
    /\ dataset[1].index_match_run = 0
    /\ dataset[2].file = "h1961_2009" /\ dataset[2].index = 0
    /\ dataset[2].index_match_run = 1 /\ dataset[2].matched_exp = "rcp45"

AllValues(cube, v) ==
    \A i \in 1..Len(cube.points) : cube.points[i].val = v

\* The scenario with the reference value ref.
ScenarioYields(ref) ==
    /\ ScenarioReferenced => dataset[2].reference_value = ref
    /\ ScenarioNormalized =>
          /\ dataset[1].reference_value = ref
          /\ dataset[2].reference_value = ref
          /\ Len(cubes[dataset[1].cube].points) = 94
          /\ Len(cubes[dataset[2].cube].points) = 49
          /\ AllValues(cubes[dataset[1].cube], Sub(R(12), ref))
          /\ AllValues(cubes[dataset[2].cube], Sub(R(10), ref))

\* C3 as stated in the specification: the future branch enters with all its 94 samples, the
\* reference is (10*30 + 12*94)/(30 + 94).
C3_ScenarioAsClaimed == ScenarioYields(Div(R(10 * 30 + 12 * 94), R(30 + 94)))

\* C3 amended: the future run is restricted to the reference window like the
\* historical run and enters with its 4 samples of 2006-2009; the reference
\* is (10*30 + 12*4)/(30 + 4) = 174/17, every normalized future value is
\* 12 - 174/17 = 30/17 and every value of the duplicated historical run is
\* 10 - 174/17 = -4/17.
C3_Scenario ==
    /\ ScenarioYields(Div(R(10 * 30 + 12 * 4), R(30 + 4)))
    /\ ScenarioNormalized =>
          /\ AllValues(cubes[dataset[1].cube], Norm(30, 17))
          /\ AllValues(cubes[dataset[2].cube], Norm(-4, 17))

C3_Witness ==
    /\ ScenarioNormalized
    /\ dataset[1].reference_value = Norm(174, 17)

----------------------------------------------------------------------------
(* C4  Each row gets the reference value of its own group, or none.          *)
(* After calculate_reference_values, under every granularity, a row's        *)
(* reference_value is undefined or the value calc_refvalue returned for the  *)
(* row's own group (its model, its model and experiment, or the row itself), *)
(* and every row of a group whose value is defined carries that value.       *)
OwnCalls(r) ==
    {k \in 1..Len(calls) :
        /\ calls[k].model = r.model
        /\ CASE cfg.normby = "model"      -> TRUE
             [] cfg.normby = "experiment" -> calls[k].key = r.experiment
             [] OTHER                     -> calls[k].key = r.index}

\* C4: a row carries the reference value of its own group or none, and
\* carries it whenever its group has one.
C4_OwnGroupReference ==
    pc = "referenced" =>
        \A i \in 1..Len(dataset) :
            LET r == dataset[i]
            IN  /\ \/ IsNA(r.reference_value)
                   \/ \E k \in OwnCalls(r) : calls[k].value = r.reference_value
                /\ \A k \in OwnCalls(r) :
                      IsNum(calls[k].value) => r.reference_value = calls[k].value

----------------------------------------------------------------------------
(* C5  Insufficient data never aborts the run.                               *)
(* A calc_refvalue call with no surviving array in one of its branches       *)
(* returns None, and calculate_reference_values, called with the historical  *)
(* key given, never raises.                                                  *)
C5_InsufficientDataNeverAborts ==
    /\ \A k \in 1..Len(calls) :
          (calls[k].historical = <<>> \/ calls[k].future = <<>>)
              => IsNA(calls[k].value)
    /\ cfg.historical_key = historical_key => pc # "raised"

----------------------------------------------------------------------------
(* C6  The table normalize returns has no row with an undefined reference    *)
(* value, under every granularity, and no array in it was normalized against *)
(* an undefined reference (all its values are numbers).                      *)
C6_NoUndefinedReferenceAfterNormalize ==
    pc = "normalized" =>
        \A i \in 1..Len(dataset) :
            /\ ~IsNA(dataset[i].reference_value)
            /\ \A j \in 1..Len(cubes[dataset[i].cube].points) :
                  IsNum(cubes[dataset[i].cube].points[j].val)

----------------------------------------------------------------------------
(* C7  Unmatched-run condition.                                              *)
(* Under every granularity a future-experiment row with match index -1       *)
(* enters no calc_refvalue call, has no reference value after                *)
(* calculate_reference_values, is not in the table normalize returns, and a  *)
(* table that holds such a row does not make the run raise.                  *)
Unmatched(r) == r.experiment # historical_key /\ r.index_match_run = -1

\* C7: an unmatched future row enters no reference computation, gets no
\* reference value, is not in the normalized table and does not abort the run.
C7_UnmatchedRunExcluded ==
    \A i \in 1..Len(dataset) :
        Unmatched(dataset[i]) =>
            /\ pc = "referenced" =>
                  /\ IsNA(dataset[i].reference_value)
                  /\ \A k \in 1..Len(calls) :
                        \A j \in 1..Len(calls[k].cubes) :
                            calls[k].cubes[j] # dataset[i].cube
            /\ pc # "normalized"
            /\ (pc = "raised" => cfg.historical_key # historical_key)

----------------------------------------------------------------------------
(* Steps of normalize, for the properties about what it does to the table.  *)

NormalizeStep == pc = "referenced" /\ pc' = "normalized"

\* The rows of the table before normalize that are matched to a historical
\* row and have a reference value.
MatchedWithRef ==
    {i \in 1..Len(dataset) :
        /\ dataset[i].index_match_run > -1
        /\ ~IsNA(dataset[i].reference_value)}

\* Row d of the result is a duplicate of historical row h made for row f.
IsDuplicateFor(d, h, f) ==
    /\ d.index = h.index /\ d.model = h.model /\ d.file = h.file
    /\ d.experiment = h.experiment
    /\ d.reference_value = f.reference_value
    /\ d.matched_exp = f.experiment
    /\ d.index_match_run = f.index

----------------------------------------------------------------------------
(* C8  Fan-out duplication (granularities other than per-model).             *)
(* For each future row f matched to historical row h with a defined          *)
(* reference value, the table normalize returns holds exactly one duplicate  *)
(* of h with f's reference value, f's experiment as matched_exp and f's      *)
(* label as match index; a historical row matched by k such rows appears k   *)
(* times, and no original historical row is in the result.                   *)
C8_Step ==
    /\ \A i \in MatchedWithRef :
          Cardinality({j \in 1..Len(dataset') :
              IsDuplicateFor(dataset'[j],
                             RowAt(dataset, dataset[i].index_match_run),
                             dataset[i])}) = 1
    /\ \A p \in 1..Len(dataset) :
          dataset[p].experiment = historical_key =>
              Cardinality({j \in 1..Len(dataset') :
                              dataset'[j].index = dataset[p].index})
              = Cardinality({i \in MatchedWithRef :
                              dataset[i].index_match_run = dataset[p].index})
    /\ \A j \in 1..Len(dataset') :
          dataset'[j].experiment = historical_key =>
              dataset'[j].index_match_run > -1 /\ dataset'[j].matched_exp # ""

\* C8: every normalize step under a granularity other than per-model
\* duplicates the matched historical rows once per future match.
C8_FanOutDuplication ==
    [][(NormalizeStep /\ cfg.normby # "model") => C8_Step]_vars

\* A normalized table in which one historical row appears twice, once for
\* each of two future rows.
C8_Witness ==
    /\ pc = "normalized" /\ cfg.normby # "model"
    /\ \E i, j \in 1..Len(dataset) :
          /\ i # j
          /\ dataset[i].index = dataset[j].index
          /\ dataset[i].experiment = historical_key
          /\ dataset[j].experiment = historical_key
          /\ dataset[i].index_match_run # dataset[j].index_match_run
          /\ dataset[i].matched_exp # dataset[j].matched_exp

----------------------------------------------------------------------------
(* C9  Each duplicate owns its array.                                        *)
(* A duplicate's cube is neither the cube of the historical row it copies    *)
(* nor the cube of another row; normalize leaves the original historical     *)
(* cube as it was, and each duplicate's values are the original historical   *)
(* values normalized once against the duplicate's own reference value.       *)
NormalizedValue(v, ref, relative) ==
    IF relative THEN Mul(Div(Sub(v, ref), ref), R(100)) ELSE Sub(v, ref)

C9_Step ==
    \A j \in 1..Len(dataset') :
        dataset'[j].matched_exp # "" =>
            LET d    == dataset'[j]
                h    == RowAt(dataset, d.index)
                orig == cubes[h.cube]
            IN  /\ d.cube # h.cube
                /\ \A k \in 1..Len(dataset') : k # j => dataset'[k].cube # d.cube
                /\ cubes'[h.cube] = orig
                /\ Len(cubes'[d.cube].points) = Len(orig.points)
                /\ \A p \in 1..Len(orig.points) :
                      cubes'[d.cube].points[p].val =
                          NormalizedValue(orig.points[p].val, d.reference_value,
                                          cfg'.relative)

\* C9: every normalize step under a granularity other than per-model gives
\* each duplicate an array of its own, normalized once.
C9_IndependentCopies ==
    [][(NormalizeStep /\ cfg.normby # "model") => C9_Step]_vars

\* Two duplicates of one historical row normalized against different
\* reference values.
C9_Witness ==
    /\ pc = "normalized" /\ cfg.normby # "model"
    /\ \E i, j \in 1..Len(dataset) :
          /\ i # j
          /\ dataset[i].index = dataset[j].index
          /\ dataset[i].matched_exp # "" /\ dataset[j].matched_exp # ""
          /\ dataset[i].reference_value # dataset[j].reference_value
          /\ cubes[dataset[i].cube] # cubes[dataset[j].cube]

----------------------------------------------------------------------------
(* C10  normalize_cube.                                                      *)
(* For every row of the result with a numeric reference R, each value V of   *)
(* its array becomes W with W + R = V in absolute mode, unit unchanged, and, *)
(* for R # 0, W with W * R = (V - R) * 100 in relative mode, unit '%'; the   *)
(* number of samples and their years are unchanged.                          *)
C10_Step ==
    \A j \in 1..Len(dataset') :
        LET r    == dataset'[j]
            pre  == cubes[IF r.matched_exp # "" THEN RowAt(dataset, r.index).cube
                          ELSE r.cube]
            post == cubes'[r.cube]
            ref  == r.reference_value
        IN  IsNum(ref) =>
               /\ Len(post.points) = Len(pre.points)
               /\ \A p \in 1..Len(pre.points) :
                     post.points[p].year = pre.points[p].year
               /\ ~cfg'.relative =>
                     /\ post.units = pre.units
                     /\ \A p \in 1..Len(pre.points) :
                           Add(post.points[p].val, ref) = pre.points[p].val
               /\ (cfg'.relative /\ ref # Zero) =>
                     /\ post.units = "%"
                     /\ \A p \in 1..Len(pre.points) :
                           Mul(post.points[p].val, ref) =
                               Mul(Sub(pre.points[p].val, ref), R(100))

\* C10: every normalize step maps the values of every row as normalize_cube
\* is specified to, and keeps length, years and (absolute mode) unit.
C10_NormalizeCube == [][NormalizeStep => C10_Step]_vars

\* A table normalized in relative mode with a row of numeric, non-zero
\* reference whose array is in percent.
C10_Witness ==
    /\ pc = "normalized" /\ cfg.relative
    /\ \E i \in 1..Len(dataset) :
          /\ IsNum(dataset[i].reference_value)
          /\ dataset[i].reference_value # Zero
          /\ cubes[dataset[i].cube].units = "%"
          /\ Len(cubes[dataset[i].cube].points) > 1
          /\ cubes[dataset[i].cube].points[1].val # cubes[dataset[i].cube].points[2].val

----------------------------------------------------------------------------
(* calc_percentile_year, calculate_percentiles and the writing of the table *)

\* x < y for two numbers.
Less(x, y) == x.n * y.d < y.n * x.d

\* x <= y as floating point compares: false when either side is NaN.
Leq(x, y) == IsNum(x) /\ IsNum(y) /\ x.n * y.d <= y.n * x.d

\* The largest integer not above the number x.
Floor(x) == x.n \div x.d

\* The columns of a row of the percentile table, and the percentages.
Columns     == <<"mean", "5", "10", "25", "50", "75", "90", "95">>
Percentages == <<5, 10, 25, 50, 75, 90, 95>>

\* iris.Constraint(year=kcsutils.EqualConstraint(year)).extract(cube).data:
\* the values of the cube's samples of that year, in order; no sample, and
\* extract returns None, the empty sequence here.
extract_year(cube, year) ==
    LET pts == SelectSeq(cube.points, LAMBDA p : p.year = year)
    IN  [i \in 1..Len(pts) |-> pts[i].val]

RECURSIVE Ranked(_)
\* The numbers of a sequence in ascending order.
Ranked(s) ==
    IF s = <<>> THEN <<>>
    ELSE LET i == CHOOSE i \in 1..Len(s) :
                      \A j \in 1..Len(s) : ~Less(s[j], s[i])
         IN  <<s[i]>> \o Ranked(SubSeq(s, 1, i - 1) \o SubSeq(s, i + 1, Len(s)))

\* np.percentile(data, q) of a non-empty flattened sample: NaN when a sample
\* is NaN; otherwise the linear interpolation between the two ranked samples
\* next to position q/100 * (N - 1).
percentile(data, q) ==
    IF \E i \in 1..Len(data) : ~IsNum(data[i]) THEN NaN
    ELSE LET ap            == Ranked(data)
             Nx            == Len(ap)
             index         == Norm(q * (Nx - 1), 100)
             below         == Floor(index)
             above         == IF below + 1 > Nx - 1 THEN Nx - 1 ELSE below + 1
             weights_above == Sub(index, R(below))
             weights_below == Sub(R(1), weights_above)
         IN  Add(Mul(ap[below + 1], weights_below),
                 Mul(ap[above + 1], weights_above))

\* The keys dataset.groupby(['model', 'experiment', 'matched_exp']) can meet,
\* in the sorted order in which groupby yields its groups.
GroupOrder ==
    << <<"model-A", "historical", "rcp45">>,
       <<"model-A", "historical", "rcp85">>,
       <<"model-B", "rcp45", "">> >>

\* The groupby key of a row.
KeyOf(r) == <<r.model, r.experiment, r.matched_exp>>

\* The data of the rows' cubes for a year, rows without the year left out:
\* list(filter(None, map(constraint.extract, rows['cube']))), flattened as
\* np.mean and np.percentile flatten it.
YearData(rows, heap, year) ==
    Concat([i \in 1..Len(rows) |-> extract_year(heap[rows[i].cube], year)])

\* The list 'data' of calc_percentile_year.
PercentileData(ds, heap, year, average_experiments) ==
    IF average_experiments
    THEN LET group(k) == SelectSeq(ds, LAMBDA r : KeyOf(r) = k)
             present  == SelectSeq(GroupOrder,
                             LAMBDA k : YearData(group(k), heap, year) # <<>>)
         IN  [g \in 1..Len(present) |->
                 Mean(YearData(group(present[g]), heap, year))]
    ELSE YearData(ds, heap, year)

\* dict(zip(keys, values))
Dict(keys, values) ==
    [k \in {keys[i] : i \in 1..Len(keys)} |->
        values[CHOOSE i \in 1..Len(keys) : keys[i] = k]]

\* calc_percentile_year(dataset, year, average_experiments): the exception it
\* raises ("" when none) and the row it returns.  np.mean of an empty list is
\* NaN with a warning; np.percentile of an empty list raises IndexError.
calc_percentile_year(ds, heap, year, average_experiments) ==
    LET data == PercentileData(ds, heap, year, average_experiments)
        mean == IF data = <<>> THEN NaN ELSE Mean(data)
    IN  IF data = <<>>
        THEN [raised |-> "IndexError", row |-> <<>>]
        ELSE [raised |-> "",
              row    |-> Dict(Columns,
                              <<mean>> \o [c \in 1..Len(Percentages) |->
                                               percentile(data, Percentages[c])])]

\* list(range(*period))
range(period) == [i \in 1..(IF period[2] > period[1] THEN period[2] - period[1]
                            ELSE 0) |-> period[1] + i - 1]

\* calculate_percentiles(dataset, period, average_experiments): one call of
\* calc_percentile_year per year, in order; the first exception ends it;
\* otherwise the table has the rows in the order of the years, indexed by
\* the date 1 January of the year.
calculate_percentiles(period, average_experiments) ==
    /\ pc = "normalized"
    /\ LET years == range(period)
           percs == [i \in 1..Len(years) |->
                        calc_percentile_year(dataset, cubes, years[i],
                                             average_experiments)]
           fails == {i \in 1..Len(years) : percs[i].raised # ""}
       IN  IF fails # {}
           THEN /\ pc' = "raised"
                /\ error' = percs[CHOOSE i \in fails : \A j \in fails : i <= j].raised
                /\ UNCHANGED percentiles
           ELSE /\ pc' = "percentiles"
                /\ error' = ""
                /\ percentiles' = [i \in 1..Len(years) |->
                                      [date |-> years[i], row |-> percs[i].row]]
    /\ cfg' = [cfg EXCEPT !.period = period,
                          !.average_experiments = average_experiments]
    /\ UNCHANGED <<dataset, cubes, calls, output, plot_vars, jet_vars>>

\* percentiles.to_csv(cfg['output'], index_label="date")
to_csv ==
    /\ pc = "percentiles"
    /\ output' = percentiles
    /\ pc' = "written"
    /\ UNCHANGED <<dataset, cubes, cfg, calls, error, percentiles, plot_vars,
                   jet_vars>>

\* The periods the percentiles are asked for.
Periods == {<<2000, 2003>>, <<2001, 2002>>}

CalculatePercentiles ==
    \E period \in Periods, average_experiments \in BOOLEAN :
        calculate_percentiles(period, average_experiments)

\* A series with 'steps' samples per year from first to last; the k-th sample
\* of a year has the value base + (year % cycle) + 3 * (k - 1).
SteppedCube(first, last, steps, base, cycle) ==
    [points |-> [i \in 1..(steps * (last - first + 1)) |->
                    LET year == first + ((i - 1) \div steps)
                    IN  [year |-> year,
                         val  |-> R(base + (year % cycle)
                                    + 3 * ((i - 1) % steps))]],
     units  |-> "K"]

\* The normalized series of the runs: what normalize_cube leaves of a series
\* with the reference value 10, and with no reference value (NaN), which
\* normalize keeps under normby = 'model'.
NormalizedNames == {"n2000_2002", "n2001_2002", "n2000", "n2000_2002nan"}
NormalizedFile(name, steps) ==
    CASE name = "n2000_2002"    ->
             normalize_cube(SteppedCube(2000, 2002, steps, 8, 5), R(10), FALSE)
      [] name = "n2001_2002"    ->
             normalize_cube(SteppedCube(2001, 2002, steps, 12, 1), R(10), FALSE)
      [] name = "n2000"         ->
             normalize_cube(SteppedCube(2000, 2000, steps, 13, 1), R(10), FALSE)
      [] name = "n2000_2002nan" ->
             normalize_cube(SteppedCube(2000, 2002, steps, 8, 5), NaN, FALSE)

\* The number of samples per year of the series of one table: yearly means,
\* or two time steps a year.
StepsPerYear == {1, 2}

\* The largest number of rows of a normalized run table.
MaxPercRows == 3

\* A row of the normalized run table.
NormalizedRow(index, key, name) ==
    [index |-> index, model |-> key[1], experiment |-> key[2],
     matched_exp |-> key[3], file |-> name, cube |-> index + 1]

RECURSIVE NormalizedTablesOfLen(_)
NormalizedTablesOfLen(n) ==
    IF n = 0 THEN {<<>>}
    ELSE {Append(t, NormalizedRow(n - 1, GroupOrder[k], name)) :
              t \in NormalizedTablesOfLen(n - 1),
              k \in 1..Len(GroupOrder), name \in NormalizedNames}

NormalizedTables == UNION {NormalizedTablesOfLen(n) : n \in 1..MaxPercRows}

\* The state in which main() calls calculate_percentiles: a normalized table.
InitPerc ==
    /\ pc = "normalized"
    /\ dataset \in NormalizedTables
    /\ \E steps \in StepsPerYear :
           cubes = [id \in 1..Len(dataset) |->
                       NormalizedFile(dataset[id].file, steps)]
    /\ cfg = [period |-> <<>>, average_experiments |-> FALSE]
    /\ calls = <<>>
    /\ error = ""
    /\ percentiles = <<>>
    /\ output = ""
    /\ PlotIdle
    /\ JetIdle

NextPerc == CalculatePercentiles \/ to_csv
SpecPerc == InitPerc /\ [][NextPerc]_vars

----------------------------------------------------------------------------
(* Properties of the percentile table (under SpecPerc).                     *)

\* calculate_percentiles was called and has ended, with a table or an exception.
PercentilesCalled == pc \in {"percentiles", "written", "raised"}

\* The rows of the run table that have a sample of the year.
RowsWithYear(year) ==
    {i \in 1..Len(dataset) :
        \E k \in 1..Len(cubes[dataset[i].cube].points) :
            cubes[dataset[i].cube].points[k].year = year}

ColumnNames == {"mean", "5", "10", "25", "50", "75", "90", "95"}

\* C11: calculate_percentiles with period (start, end) returns exactly one row
\* per calendar year y with start <= y < end, in ascending order of the year,
\* each row with the columns mean, 5, 10, 25, 50, 75, 90, 95; the end year is
\* not in the table and no year of the range is skipped, also when no run has
\* data for it.
C11_OneRowPerYear ==
    PercentilesCalled =>
        /\ pc # "raised"
        /\ Len(percentiles) = cfg.period[2] - cfg.period[1]
        /\ \A i \in 1..Len(percentiles) :
               /\ percentiles[i].date = cfg.period[1] + i - 1
               /\ DOMAIN percentiles[i].row = ColumnNames

\* C12: a year for which no row's series has a value is not an error:
\* calc_percentile_year returns a row whose mean and seven percentiles are
\* NaN, without raising, with and without experiment averaging, and the
\* remaining years are computed and the table is written.
C12_EmptyYearIsNotAnError ==
    (PercentilesCalled /\ \E y \in cfg.period[1]..(cfg.period[2] - 1) :
                              RowsWithYear(y) = {}) =>
        /\ pc # "raised"
        /\ \A i \in 1..Len(percentiles) :
               RowsWithYear(percentiles[i].date) = {} =>
                   \A c \in ColumnNames : IsNA(percentiles[i].row[c])

\* The values all rows have for a year, as a set of (row, sample) positions.
ValuesOfYear(year) ==
    {<<i, k>> \in (1..Len(dataset)) \X (1..(2 * 3)) :
        /\ k <= Len(cubes[dataset[i].cube].points)
        /\ cubes[dataset[i].cube].points[k].year = year}

ValueAt(pos) == cubes[dataset[pos[1]].cube].points[pos[2]].val

\* C13: for every year row computed from at least one contributing value,
\* p5 <= p10 <= p25 <= p50 <= p75 <= p90 <= p95, each percentile lying within
\* the range of the contributing values (an interpolation between ranked
\* samples); when exactly one value contributes, the mean and the seven
\* percentiles equal that value.
C13_PercentilesOrdered ==
    pc \in {"percentiles", "written"} =>
        \A i \in 1..Len(percentiles) :
            LET row  == percentiles[i].row
                vals == ValuesOfYear(percentiles[i].date)
            IN  /\ \A c \in 1..(Len(Percentages) - 1) :
                       Leq(row[Columns[c + 1]], row[Columns[c + 2]])
                /\ \A c \in 2..Len(Columns) :
                       /\ \E v \in vals : Leq(ValueAt(v), row[Columns[c]])
                       /\ \E v \in vals : Leq(row[Columns[c]], ValueAt(v))
                /\ Cardinality(vals) = 1 =>
                       \A c \in ColumnNames : \A v \in vals : row[c] = ValueAt(v)

\* The k-th smallest of the numbers f[i], i in S, found by counting.
KthSmallest(f, S, k) ==
    LET x == CHOOSE x \in S :
                 /\ Cardinality({j \in S : Less(f[j], f[x])}) < k
                 /\ k <= Cardinality({j \in S : ~Less(f[x], f[j])})
    IN  f[x]

\* The statistic of a column over the samples f[i], i in S (S not empty):
\* the arithmetic mean, or the percentile that lies the fraction
\* q/100 * (N - 1) of the way through the N ranked samples.
Statistic(f, S, column) ==
    IF column = "mean" THEN Div(SumOver(f, S), R(Cardinality(S)))
    ELSE IF \E i \in S : ~IsNum(f[i]) THEN NaN
    ELSE LET q    == CHOOSE q \in {5, 10, 25, 50, 75, 90, 95} :
                         column = ToString(q)
             pos  == q * (Cardinality(S) - 1)
             lo   == KthSmallest(f, S, (pos \div 100) + 1)
             hi   == IF pos % 100 = 0 THEN lo
                     ELSE KthSmallest(f, S, (pos \div 100) + 2)
         IN  Add(lo, Mul(Sub(hi, lo), Norm(pos % 100, 100)))

\* Two rows are of the same (model, experiment, matched_exp) group.
SameGroup(i, j) ==
    /\ dataset[i].model = dataset[j].model
    /\ dataset[i].experiment = dataset[j].experiment
    /\ dataset[i].matched_exp = dataset[j].matched_exp

\* The average of the values the rows of row i's group have for a year.
GroupAverage(i, year) ==
    LET S == {pos \in ValuesOfYear(year) : SameGroup(pos[1], i)}
    IN  Div(SumOver([pos \in S |-> ValueAt(pos)], S), R(Cardinality(S)))

\* The value row i has for a year.
RowValue(i, year) ==
    LET S == {pos \in ValuesOfYear(year) : pos[1] = i}
    IN  Div(SumOver([pos \in S |-> ValueAt(pos)], S), R(Cardinality(S)))

\* One row of each group that has a value for the year.
GroupsWithYear(year) ==
    {i \in RowsWithYear(year) :
        \A j \in RowsWithYear(year) : SameGroup(i, j) => i <= j}

\* C14: with experiment averaging, the statistics of a year are taken over
\* one sample per (model, experiment, matched_exp) group that has a value for
\* the year, the average of the group's values of that year; without it, over
\* one sample per row that has the year, the row's value.
C14_SamplesOfYear ==
    pc \in {"percentiles", "written"} =>
        \A i \in 1..Len(percentiles) : \A c \in ColumnNames :
            LET year == percentiles[i].date
            IN  percentiles[i].row[c] =
                    IF cfg.average_experiments
                    THEN Statistic([g \in GroupsWithYear(year) |->
                                       GroupAverage(g, year)],
                                   GroupsWithYear(year), c)
                    ELSE Statistic([r \in RowsWithYear(year) |->
                                       RowValue(r, year)],
                                   RowsWithYear(year), c)

----------------------------------------------------------------------------
(* diag_scripts/mlr/plot.py: main, get_input_datasets, get_cube_dict and    *)
(* the plot loops.  A dataset is a record of its metadata; a metadata value *)
(* that is missing (None) is the string "None".                             *)

None == "None"

\* 'sub' in s
Contains(s, sub) ==
    \E i \in 1..(Len(s) - Len(sub) + 1) : SubSeq(s, i, i + Len(sub) - 1) = sub

\* group_metadata(metadata, attribute): the datasets grouped by the value of
\* the attribute, as a sequence of items [key, datasets] in the order in
\* which the values first appear.
group_metadata(metadata, attribute) ==
    LET keys == Unique([i \in 1..Len(metadata) |-> metadata[i][attribute]])
    IN  [k \in 1..Len(keys) |->
            [key      |-> keys[k],
             datasets |-> SelectSeq(metadata,
                                    LAMBDA d : d[attribute] = keys[k])]]

\* _get_key(var_type, model_name)
get_key(var_type, model_name) ==
    IF model_name = None THEN var_type ELSE var_type \o "_" \o model_name

\* Faulty variant of ExactlyOne: only an empty group is refused.
AtLeastOne(datasets) == Len(datasets) >= 1

\* The test of _get_cube on the datasets of a group: len(datasets) != 1 raises.
ExactlyOne(datasets) == Len(datasets) = 1

\* _get_cube(var_type, model_name, datasets): the exception it raises ("" when
\* none) and the cube, reduced to the attributes the plots use.
get_cube(var_type, model_name, datasets) ==
    IF ~Contains(var_type, "error") /\ ~ExactlyOne(datasets)
    THEN [raised |-> "ValueError", cube |-> <<>>]
    ELSE [raised |-> "",
          cube   |-> [var_type |-> var_type, mlr_model_name |-> model_name,
                      tag |-> datasets[1].tag,
                      filenames |-> [i \in 1..Len(datasets) |->
                                        datasets[i].filename]]]

\* cube_dict[key] = cube on a dictionary kept as a sequence of items: a new
\* key is appended, the value of a known key is replaced.
SetItem(dict, key, value) ==
    IF \E i \in 1..Len(dict) : dict[i].key = key
    THEN [i \in 1..Len(dict) |->
             IF dict[i].key = key THEN [key |-> key, value |-> value]
             ELSE dict[i]]
    ELSE Append(dict, [key |-> key, value |-> value])

\* The (var_type, model) groups in the order get_cube_dict visits them.
CubeGroups(metadata) ==
    LET by_type == group_metadata(metadata, "var_type")
    IN  Concat([t \in 1..Len(by_type) |->
            LET by_model == group_metadata(by_type[t].datasets, "mlr_model_name")
            IN  [m \in 1..Len(by_model) |->
                    [var_type   |-> by_type[t].key,
                     model_name |-> by_model[m].key,
                     datasets   |-> by_model[m].datasets]]])

RECURSIVE CubeDictUpTo(_, _)
\* get_cube_dict after the first n groups: the exception raised so far and
\* the dictionary.
CubeDictUpTo(groups, n) ==
    IF n = 0 THEN [raised |-> "", dict |-> <<>>]
    ELSE LET before == CubeDictUpTo(groups, n - 1)
             g      == groups[n]
             got    == get_cube(g.var_type, g.model_name, g.datasets)
         IN  IF before.raised # "" THEN before
             ELSE IF got.raised # "" THEN [before EXCEPT !.raised = got.raised]
             ELSE [before EXCEPT !.dict =
                      SetItem(@, get_key(g.var_type, g.model_name), got.cube)]

\* get_input_datasets(cfg): the tags of the input data are counted, any
\* number other than one raises.
get_input_datasets ==
    /\ pc = "main"
    /\ IF Len(group_metadata(input_data, "tag")) # 1
       THEN pc' = "raised" /\ error' = "ValueError"
       ELSE pc' = "get_cube_dict" /\ error' = ""
    /\ UNCHANGED <<plot_vars, kcs_vars, jet_vars>>

\* The keys of a dictionary in order.
Keys(dict) == [i \in 1..Len(dict) |-> dict[i].key]

\* itertools.permutations(cube_dict, 2): the ordered pairs of different keys.
Permutations2(keys) ==
    Concat([i \in 1..Len(keys) |->
               LET others == SelectSeq([j \in 1..Len(keys) |-> j],
                                       LAMBDA j : j # i)
               IN  [k \in 1..Len(others) |-> <<keys[i], keys[others[k]]>>]])

\* get_cube_dict(input_data); main goes on to plot_abs with the dictionary.
get_cube_dict ==
    /\ pc = "get_cube_dict"
    /\ LET groups == CubeGroups(input_data)
           result == CubeDictUpTo(groups, Len(groups))
       IN  IF result.raised # ""
           THEN /\ pc' = "raised"
                /\ error' = result.raised
                /\ UNCHANGED <<cube_dict, todo>>
           ELSE /\ pc' = "plot_abs"
                /\ error' = ""
                /\ cube_dict' = result.dict
                /\ todo' = Keys(result.dict)
    /\ UNCHANGED <<input_data, written, kcs_vars, jet_vars>>

\* One pass of the loop of plot_abs: the plot of a cube is saved.  After the
\* last pass main calls plot_biases, whose loop is over the pairs of keys.
plot_abs ==
    /\ pc = "plot_abs"
    /\ todo # <<>>
    /\ written' = written \cup {"abs_" \o Head(todo)}
    /\ IF Tail(todo) # <<>>
       THEN pc' = "plot_abs" /\ todo' = Tail(todo)
       ELSE /\ todo' = Permutations2(Keys(cube_dict))
            /\ pc' = IF todo' = <<>> THEN "corr" ELSE "plot_biases"
    /\ UNCHANGED <<input_data, cube_dict, error, kcs_vars, jet_vars>>

\* One pass of the loop of plot_biases: the plot of a difference is saved.
plot_biases ==
    /\ pc = "plot_biases"
    /\ todo # <<>>
    /\ written' = written \cup {"bias_" \o Head(todo)[1] \o "-" \o Head(todo)[2]}
    /\ todo' = Tail(todo)
    /\ pc' = IF Tail(todo) = <<>> THEN "corr" ELSE "plot_biases"
    /\ UNCHANGED <<input_data, cube_dict, error, kcs_vars, jet_vars>>

\* corr.to_csv(corr_path): the correlation table is written.
corr_to_csv ==
    /\ pc = "corr"
    /\ written' = written \cup {"corr.csv"}
    /\ pc' = "done"
    /\ UNCHANGED <<input_data, cube_dict, todo, error, kcs_vars, jet_vars>>

\* The metadata of the input datasets.
Tags       == {"tas", "pr"}
VarTypes   == {"label", "prediction_output", "prediction_output_error"}
MlrModels  == {None, "GBR"}

\* The largest number of input datasets.
MaxDatasets == 3

RECURSIVE InputsOfLen(_)
InputsOfLen(n) ==
    IF n = 0 THEN {<<>>}
    ELSE {Append(t, [tag |-> tag, var_type |-> var_type,
                     mlr_model_name |-> model,
                     filename |-> "file" \o ToString(n)]) :
              t \in InputsOfLen(n - 1), tag \in Tags, var_type \in VarTypes,
              model \in MlrModels}

InitPlot ==
    /\ pc = "main"
    /\ error = ""
    /\ input_data \in UNION {InputsOfLen(n) : n \in 0..MaxDatasets}
    /\ cube_dict = <<>>
    /\ todo = <<>>
    /\ written = {}
    /\ KcsIdle
    /\ JetIdle

NextPlot ==
    get_input_datasets \/ get_cube_dict \/ plot_abs \/ plot_biases \/ corr_to_csv
SpecPlot == InitPlot /\ [][NextPlot]_vars

----------------------------------------------------------------------------
(* Properties of the plotting script (under SpecPlot).                      *)

\* The distinct tags of the input datasets.
TagsOfInput == {input_data[i].tag : i \in 1..Len(input_data)}

\* Two input datasets of the same (var_type, model) group that is not an
\* error group.
SharedGroup ==
    \E i, j \in 1..Len(input_data) :
        /\ i # j
        /\ input_data[i].var_type = input_data[j].var_type
        /\ input_data[i].mlr_model_name = input_data[j].mlr_model_name
        /\ ~Contains(input_data[i].var_type, "error")

CardinalityViolation == Cardinality(TagsOfInput) # 1 \/ SharedGroup

\* C15: when the input datasets do not carry exactly one distinct tag, or a
\* non-error (var_type, model) group does not contain exactly one dataset,
\* main raises ValueError before any plot file and before the correlation
\* table is written: the run is at its start, past the tag check with a
\* unique tag, or ended by ValueError, and nothing is written.
C15_CardinalityViolationIsFatal ==
    CardinalityViolation =>
        /\ written = {}
        /\ pc \in {"main", "get_cube_dict", "raised"}
        /\ pc = "get_cube_dict" => Cardinality(TagsOfInput) = 1
        /\ pc = "raised" => error = "ValueError"

\* A run with a unique tag that get_cube_dict ended with ValueError for a
\* non-error group of two datasets, next to a third dataset.
C15_Witness ==
    /\ pc = "raised"
    /\ error = "ValueError"
    /\ Cardinality(TagsOfInput) = 1
    /\ SharedGroup
    /\ Len(input_data) = 3
    /\ written = {}

----------------------------------------------------------------------------
(* preprocessor/_derive/uajet.py: DerivedVariable.calculate.  The cube is   *)
(* taken after the interpolation to PLEV, the extraction of the latitudes   *)
(* LAT[0]..LAT[1] and the zonal mean: a wind per time step and latitude.    *)

\* seq[start:stop] for a Python slice with both ends given; indices from 0,
\* a negative start counts from the end.
Slice(seq, start, stop) ==
    LET n  == Len(seq)
        lo == IF start < 0 THEN (IF start + n < 0 THEN 0 ELSE start + n)
              ELSE (IF start > n THEN n ELSE start)
        hi == IF stop < 0 THEN (IF stop + n < 0 THEN 0 ELSE stop + n)
              ELSE (IF stop > n THEN n ELSE stop)
    IN  SubSeq(seq, lo + 1, hi)

\* np.max(ua_data)
Max(data) == CHOOSE m \in {data[i] : i \in 1..Len(data)} :
                 \A i \in 1..Len(data) : data[i] <= m

\* np.argmax(ua_data): the first index (from 0) of the maximum.
argmax(data) ==
    (CHOOSE i \in 1..Len(data) :
        /\ data[i] = Max(data)
        /\ \A j \in 1..(i - 1) : data[j] # Max(data)) - 1

\* np.poly1d(np.polyfit(x, y, 2))(at) for at most three samples with
\* different x: the fitted polynomial passes through the samples, and its
\* value is taken by Lagrange's formula.
polyfit_at(x, y, at) ==
    SumSeq([i \in 1..Len(x) |->
        LET others == {j \in 1..Len(x) : j # i}
            num[S \in SUBSET others] ==
                IF S = {} THEN 1
                ELSE LET j == CHOOSE j \in S : TRUE
                     IN  (at - x[j]) * num[S \ {j}]
            den[S \in SUBSET others] ==
                IF S = {} THEN 1
                ELSE LET j == CHOOSE j \in S : TRUE
                     IN  (x[i] - x[j]) * den[S \ {j}]
        IN  Norm(y[i] * num[others], den[others])])

\* slc = slice(idx_max_ua - 1, idx_max_ua + 2)
slc(idx_max_ua) == <<idx_max_ua - 1, idx_max_ua + 2>>

\* One pass of the loop over the time slices; np.polyfit raises TypeError
\* for an empty x.
time_slice ==
    /\ pc = "calculate"
    /\ time_index < Len(ua_cube.data)
    /\ LET ua_data    == ua_cube.data[time_index + 1]
           idx_max_ua == argmax(ua_data)
           s          == slc(idx_max_ua)
       IN  /\ x_vals' = Slice(ua_data, s[1], s[2])
           /\ y_vals' = Slice(ua_cube.latitude, s[1], s[2])
           /\ IF x_vals' = <<>>
              THEN /\ pc' = "raised"
                   /\ error' = "TypeError"
                   /\ UNCHANGED <<time_index, uajet_vals>>
              ELSE /\ uajet_vals' =
                          Append(uajet_vals,
                                 polyfit_at(x_vals', y_vals', Max(ua_data)))
                   /\ time_index' = time_index + 1
                   /\ UNCHANGED <<pc, error>>
    /\ UNCHANGED <<ua_cube, kcs_vars, plot_vars>>

\* uajet_cube = iris.cube.Cube(uajet_vals, ...) and return, after the loop.
uajet_cube ==
    /\ pc = "calculate"
    /\ time_index = Len(ua_cube.data)
    /\ pc' = "done"
    /\ UNCHANGED <<error, jet_vars, kcs_vars, plot_vars>>

\* The latitudes of the extracted range on grids of 3 and 4 points, and the
\* largest number of time steps.
Grids    == {<<-80, -55, -30>>, <<-75, -60, -45, -30>>}
MaxTimes == 2

\* The zonal-mean winds of one time step on a grid of n points: each
\* arrangement of n different values.
Winds(n) == {w \in [1..n -> 1..n] : \A i, j \in 1..n : w[i] = w[j] => i = j}

InitJet ==
    /\ pc = "calculate"
    /\ error = ""
    /\ \E latitude \in Grids, times \in 1..MaxTimes :
           \E data \in [1..times -> Winds(Len(latitude))] :
               ua_cube = [data |-> data, latitude |-> latitude]
    /\ time_index = 0
    /\ x_vals = <<>>
    /\ y_vals = <<>>
    /\ uajet_vals = <<>>
    /\ KcsIdle
    /\ PlotIdle

NextJet == time_slice \/ uajet_cube
SpecJet == InitJet /\ [][NextJet]_vars

\* The time slice the loop went through last, from 1.
LastSlice == IF pc = "raised" THEN time_index + 1 ELSE time_index

\* C16: for every time step and every position of the maximum zonal-mean
\* wind in the extracted latitude range, the first and the last latitude
\* included, the fit is made on exactly three (wind, latitude) samples, the
\* grid point of the maximum and its two neighbours, and the result holds
\* exactly one jet latitude per time step.
C16_ThreePointFit ==
    /\ pc # "raised"
    /\ Len(uajet_vals) = time_index
    /\ pc = "done" => Len(uajet_vals) = Len(ua_cube.data)
    /\ LastSlice > 0 =>
           LET ua_data == ua_cube.data[LastSlice]
           IN  /\ Len(x_vals) = 3
               /\ Len(y_vals) = 3
               /\ x_vals[2] = Max(ua_data)
               /\ \E i \in 1..(Len(ua_data) - 2) :
                      /\ x_vals = SubSeq(ua_data, i, i + 2)
                      /\ y_vals = SubSeq(ua_cube.latitude, i, i + 2)

====
